---- MODULE Spec2Model ----
(***************************************************************************)
(* create-servers: listener orchestration of index.js.                     *)
(*                                                                         *)
(* createServers normalizes a configuration holding up to three protocol   *)
(* classes (http, https, http2), each absent, a single listener config or  *)
(* an array of listener configs, launches every listener, awaits all of    *)
(* them (Promise.allSettled) and reports one aggregated (error, servers)   *)
(* pair to the completion callback.                                        *)
(*                                                                         *)
(* The filesystem (credential reads) and the network (bind) are the        *)
(* environment: each issued read or bind completes with success or with an *)
(* error, chosen nondeterministically, in any interleaving.                *)
(***************************************************************************)
EXTENDS Integers, Sequences, FiniteSets, TLC

(* ---------------------------------------------------------------------- *)
(* Bounds                                                                  *)
(* ---------------------------------------------------------------------- *)

\* longest array of listener configs given for one protocol class
MaxLen == 2

\* most listeners requested by one configuration, over all classes
MaxListeners == 3

(* ---------------------------------------------------------------------- *)
(* JavaScript values                                                       *)
(* ---------------------------------------------------------------------- *)

\* the order in which createServers launches and inspects the classes
Classes == <<"http", "https", "http2">>

ClassSet == {Classes[k] : k \in 1..Len(Classes)}

\* undefined, null, one object (a server or an error), or an array of objects
Undefined == [t |-> "undefined", v |-> <<>>]

Null == [t |-> "null", v |-> <<>>]

One(x) == [t |-> "one", v |-> <<x>>]

Arr(s) == [t |-> "array", v |-> s]

\* a property that the object does not have (reading it gives undefined)
Missing == [t |-> "missing", v |-> <<>>]

Bool(b) == [t |-> "bool", v |-> <<b>>]

Num(n) == [t |-> "num", v |-> <<n>>]

NaN == [t |-> "nan", v |-> <<>>]

\* a string, as the sequence of its characters: 0..9 are the digits, any
\* larger code is a character that is not part of a number
Str(s) == [t |-> "str", v |-> s]

\* a function (a request handler)
Fn(f) == [t |-> "fn", v |-> <<f>>]

\* a plain object, as the record of its properties
Obj(fields) == [t |-> "obj", v |-> <<fields>>]

\* a piece of text: literal characters, the content of a file, a separator
Chunk(kind, root, name) == <<kind, root, name>>

\* a string whose content is not inspected character by character, as the
\* sequence of its pieces
Text(chunks) == [t |-> "text", v |-> chunks]

\* the string literal s
Lit(s) == Text(<<Chunk("inline", "", s)>>)

\* the literal a one-piece string was written as
LitOf(x) == x.v[1][3]

\* a string that holds PEM material (it matches /-----BEGIN/)
Pem(id) == [t |-> "pem", v |-> <<Chunk("inline", "", id)>>]

\* a string that names a file
Path(name) == [t |-> "path", v |-> <<Chunk("inline", "", name)>>]

\* a Buffer
Buffer(chunks) == [t |-> "buffer", v |-> chunks]

\* a rejected promise
Failed(code) == [t |-> "error", v |-> <<code>>]

\* JavaScript truthiness: objects, functions and arrays (also the empty
\* array) are truthy; undefined, null, false, 0, NaN and '' are falsy
Truthy(x) ==
  \/ x.t \in {"one", "array", "obj", "fn", "pem", "path", "buffer", "sni"}
  \/ x.t = "text" /\ x.v # <<>>
  \/ x.t = "bool" /\ x.v[1]
  \/ x.t = "num" /\ x.v[1] # 0
  \/ x.t = "str" /\ x.v # <<>>

\* Array.isArray
IsArray(x) == x.t = "array"

\* a || b
Or(a, b) == IF Truthy(a) THEN a ELSE b

(* ---------------------------------------------------------------------- *)
(* Configurations                                                          *)
(* ---------------------------------------------------------------------- *)

\* One listener config: handler = the config has a handler of its own,
\* sni = the config has an sni map (encrypted classes only).
ListenerCfgs(c) ==
  [handler : BOOLEAN, sni : IF c = "http" THEN {FALSE} ELSE BOOLEAN]

SeqsUpTo(S, n) == UNION {[1..k -> S] : k \in 0..n}

\* options.http / options.https / options.http2:
\* undefined, a single config, or an array of configs
ClassCfgs(c) ==
  {[shape |-> "undefined", cfgs |-> <<>>]}
    \cup {[shape |-> "single", cfgs |-> <<x>>] : x \in ListenerCfgs(c)}
    \cup {[shape |-> "array", cfgs |-> s] : s \in SeqsUpTo(ListenerCfgs(c), MaxLen)}

NumListeners(o) == Len(o.http.cfgs) + Len(o.https.cfgs) + Len(o.http2.cfgs)

\* the configuration objects a caller may pass; handler = a top-level handler
OptionsSet ==
  {o \in [http : ClassCfgs("http"), https : ClassCfgs("https"),
          http2 : ClassCfgs("http2"), handler : BOOLEAN] :
     NumListeners(o) <= MaxListeners}

\* listener slots: <<class, index>>
Slots == ClassSet \X (1..MaxLen)

VARIABLES
  options,   \* createServers' options: the caller's configuration, then
             \* (options = normalizeOptions(options)) the normalized one
  pc,        \* createServers: "start", "pending" (awaiting), "done", "rejected"
  st,        \* per slot: "none", "reading", "sni", "binding", "listening", "failed"
  err,       \* per slot: the error the listener failed with ("" if none)
  result,    \* per class: the promise of createHttp / createHttps
  calls,     \* the invocations of the completion callback, in order
  input,     \* one listener's configuration, followed through normalization
             \* and server creation on its own (OptionsSpec)
  output     \* what normalization and server creation made of input

vars == <<options, pc, st, err, result, calls, input, output>>

Requested(o, l) == l[2] <= Len(o[l[1]].cfgs)

Cfg(o, l) == o[l[1]].cfgs[l[2]]

Settled(s) == s \in {"listening", "failed"}

(* ---------------------------------------------------------------------- *)
(* normalizeOptions                                                        *)
(* ---------------------------------------------------------------------- *)

\* handler: cfg.handler || baseConfig.handler
resolveHandler(cfg, baseConfig) == cfg.handler \/ baseConfig.handler

\* mutation: the handler check is made for a single config only, not for the
\* elements of an array
normalizeClassThrowsSingleOnly(classCfg, baseConfig) ==
  /\ classCfg.shape = "single"
  /\ ~resolveHandler(classCfg.cfgs[1], baseConfig)

\* normalizeHttpOptions / normalizeHttpsOptions throw when a listener of the
\* class (the single config, or any element of the array) has no handler
normalizeClassThrows(classCfg, baseConfig) ==
  \E i \in 1..Len(classCfg.cfgs) : ~resolveHandler(classCfg.cfgs[i], baseConfig)

\* mutation: the check that some class is requested is missing
normalizeOptionsErrorNoRequired(o) ==
  IF \E c \in ClassSet : normalizeClassThrows(o[c], o)
    THEN "handler option is required"
  ELSE ""

\* mutation: a missing handler is not detected during normalization
normalizeOptionsErrorNoHandler(o) ==
  IF \A c \in ClassSet : o[c].shape = "undefined"
    THEN "http, https, and/or http2 are required options"
  ELSE ""

\* the message of the error normalizeOptions throws, "" when it returns
normalizeOptionsError(o) ==
  IF \E c \in ClassSet : normalizeClassThrows(o[c], o)
    THEN "handler option is required"
  ELSE IF \A c \in ClassSet : o[c].shape = "undefined"
    THEN "http, https, and/or http2 are required options"
  ELSE ""

\* what normalizeOptions returns: { http, https, http2, log }, every listener
\* config carrying its resolved handler; the top-level handler is not copied
normalizeOptions(o) ==
  [c \in ClassSet |->
     [shape |-> o[c].shape,
      cfgs |-> [i \in 1..Len(o[c].cfgs) |->
                  [handler |-> resolveHandler(o[c].cfgs[i], o),
                   sni |-> o[c].cfgs[i].sni]]]]

(* ---------------------------------------------------------------------- *)
(* State                                                                   *)
(* ---------------------------------------------------------------------- *)

\* the create function of the class has not been called
NotCalled == [status |-> "idle", value |-> Undefined, reason |-> Undefined]

Pending == [status |-> "pending", value |-> Undefined, reason |-> Undefined]

Fulfilled(x) == [status |-> "fulfilled", value |-> x, reason |-> Undefined]

Rejected(e) == [status |-> "rejected", value |-> Undefined, reason |-> e]

\* an error object raised by a read or a bind of listener l
Error(message, l) == [message |-> message, of |-> l]

Init ==
  /\ options \in OptionsSet
  /\ pc = "start"
  /\ st = [l \in Slots |-> "none"]
  /\ err = [l \in Slots |-> ""]
  /\ result = [c \in ClassSet |-> NotCalled]
  /\ calls = <<>>
  /\ input = <<>>
  /\ output = <<>>

(* ---------------------------------------------------------------------- *)
(* createHttp / createHttps: one listener                                  *)
(* ---------------------------------------------------------------------- *)

\* Where a listener stands when the synchronous part of its create function
\* returns: createHttp has created the server and issued the bind;
\* createHttps has issued the reads of key, cert and ca and awaits them.
launch(c) == IF c = "http" THEN "binding" ELSE "reading"

\* mutation: the elements of an array are created one after the other, the
\* next one only once the previous one has settled
launchedFirstOnly(o, l) == Requested(o, l) /\ l[2] = 1

\* createMultiple launches every element of the array: configArray.map(createFn)
launched(o, l) == Requested(o, l)

\* the promise of createHttp / createHttps for a class, right after the call
started(classCfg) ==
  IF classCfg.shape = "undefined" THEN Fulfilled(Null) ELSE Pending

\* The h2 argument createHttps runs with for listener l: createServers passes
\* true for options.http2; for an array createHttps calls
\* createMultiple(createHttps, ssl, log, h2), which takes three parameters
\* and calls createFn(cfg, log), so the elements run with h2 undefined.
h2(o, l) == l[1] = "http2" /\ o[l[1]].shape = "single"

\* the collaborator that creates the server of listener l
createServer(o, l) ==
  IF l[1] = "http" THEN "http.createServer"
  ELSE IF h2(o, l) THEN "http2.createSecureServer"
  ELSE "https.createServer"

\* A listener of a single-config class settles the class's promise itself;
\* an element of an array settles only its own promise inside createMultiple.
classResult(c, settledAs) ==
  IF options[c].shape = "single" THEN settledAs ELSE result[c]

\* createHttps: await Promise.all([key, cert, ca]) completes
ReadDone(l, ok) ==
  /\ st[l] = "reading"
  /\ IF ok
       THEN /\ st' = [st EXCEPT ![l] = IF Cfg(options, l).sni THEN "sni" ELSE "binding"]
            /\ UNCHANGED <<err, result>>
       ELSE /\ st' = [st EXCEPT ![l] = "failed"]
            /\ err' = [err EXCEPT ![l] = "ENOENT"]
            /\ result' = [result EXCEPT ![l[1]] =
                            classResult(l[1], Rejected(One(Error("ENOENT", l))))]
  /\ UNCHANGED <<options, pc, calls, input, output>>

\* createHttps: await getSNIHandler(ssl) completes (per-host reads, contexts)
SNIDone(l, ok) ==
  /\ st[l] = "sni"
  /\ IF ok
       THEN /\ st' = [st EXCEPT ![l] = "binding"]
            /\ UNCHANGED <<err, result>>
       ELSE /\ st' = [st EXCEPT ![l] = "failed"]
            /\ err' = [err EXCEPT ![l] = "ENOENT"]
            /\ result' = [result EXCEPT ![l[1]] =
                            classResult(l[1], Rejected(One(Error("ENOENT", l))))]
  /\ UNCHANGED <<options, pc, calls, input, output>>

\* connected(server, port, host, listener): listener(err) is called
ListenDone(l, ok) ==
  /\ st[l] = "binding"
  /\ IF ok
       THEN /\ st' = [st EXCEPT ![l] = "listening"]
            /\ UNCHANGED err
            /\ result' = [result EXCEPT ![l[1]] = classResult(l[1], Fulfilled(One(l)))]
       ELSE /\ st' = [st EXCEPT ![l] = "failed"]
            /\ err' = [err EXCEPT ![l] = "EADDRINUSE"]
            /\ result' = [result EXCEPT ![l[1]] =
                            classResult(l[1], Rejected(One(Error("EADDRINUSE", l))))]
  /\ UNCHANGED <<options, pc, calls, input, output>>

(* ---------------------------------------------------------------------- *)
(* createMultiple                                                          *)
(* ---------------------------------------------------------------------- *)

\* mutation: the await resumes as soon as one element has settled
anySettled(c) ==
  \E i \in 1..Len(options[c].cfgs) : Settled(st[<<c, i>>])

\* await Promise.allSettled(configArray.map(...)) resumes
allSettled(c) ==
  \A i \in 1..Len(options[c].cfgs) : Settled(st[<<c, i>>])

\* for (const result of errorsOrServers) result.reason && errors.push(...)
RECURSIVE errorsOf(_, _)
errorsOf(c, n) ==
  IF n = 0 THEN <<>>
  ELSE IF st[<<c, n>>] = "failed"
    THEN Append(errorsOf(c, n - 1), Error(err[<<c, n>>], <<c, n>>))
  ELSE errorsOf(c, n - 1)

\* for (const result of errorsOrServers) result.value && servers.push(...)
RECURSIVE serversOf(_, _)
serversOf(c, n) ==
  IF n = 0 THEN <<>>
  ELSE IF st[<<c, n>>] = "listening"
    THEN Append(serversOf(c, n - 1), <<c, n>>)
  ELSE serversOf(c, n - 1)

\* mutation: an array of one listener is unwrapped to the listener itself
createMultipleUnwrap(c) ==
  IF errorsOf(c, Len(options[c].cfgs)) # <<>>
    THEN Rejected(Arr(errorsOf(c, Len(options[c].cfgs))))
  ELSE IF Len(options[c].cfgs) = 1
    THEN Fulfilled(One(<<c, 1>>))
  ELSE Fulfilled(Arr(serversOf(c, Len(options[c].cfgs))))

\* if (errors.length) throw errors; else return servers;
createMultiple(c) ==
  IF errorsOf(c, Len(options[c].cfgs)) # <<>>
    THEN Rejected(Arr(errorsOf(c, Len(options[c].cfgs))))
    ELSE Fulfilled(Arr(serversOf(c, Len(options[c].cfgs))))

CreateMultipleDone(c) ==
  /\ options[c].shape = "array"
  /\ result[c].status = "pending"
  /\ allSettled(c)
  /\ result' = [result EXCEPT ![c] = createMultiple(c)]
  /\ UNCHANGED <<options, pc, st, err, calls, input, output>>

(* ---------------------------------------------------------------------- *)
(* createServers                                                           *)
(* ---------------------------------------------------------------------- *)

NoFields == [c \in ClassSet |-> Undefined]

\* listening(err): a thrown Error, no class fields, servers not passed
configErrorCall(message) ==
  [error |-> [defined |-> TRUE, message |-> message, field |-> NoFields],
   servers |-> [defined |-> FALSE, key |-> NoFields]]

Absent == [t |-> "absent", v |-> <<>>]

\* mutation: servers is filled only when no class failed
serversMapDropOnError(res) ==
  [c \in ClassSet |->
     IF Truthy(res[c].value) /\ \A d \in ClassSet : ~Truthy(res[d].reason)
       THEN res[c].value ELSE Absent]

\* mutation: every class is assigned, whatever its value
\* (servers.http = httpResult.value)
serversMapUnconditional(res) == [c \in ClassSet |-> res[c].value]

\* if (httpResult.value) servers.http = httpResult.value; ... ("absent" = no key)
serversMap(res) ==
  [c \in ClassSet |->
     IF Truthy(res[c].value) THEN res[c].value ELSE Absent]

\* httpResult.reason || httpsResult.reason || http2Result.reason
errorSource(res) ==
  Or(res["http"].reason, Or(res["https"].reason, res["http2"].reason))

\* mutation: the http2 field is left out of the error
errorFieldsNoHttp2(res) ==
  [c \in ClassSet |-> IF c = "http2" THEN Undefined ELSE res[c].reason]

\* errs.create({ message, http2, https, http })
errorFields(res) == [c \in ClassSet |-> res[c].reason]

\* listening(errs.create({...}), servers)
errorCall(res) ==
  [error |-> [defined |-> TRUE, message |-> errorSource(res).v[1].message,
              field |-> errorFields(res)],
   servers |-> [defined |-> TRUE, key |-> serversMap(res)]]

\* listening(undefined, servers)
successCall(res) ==
  [error |-> [defined |-> FALSE, message |-> "", field |-> NoFields],
   servers |-> [defined |-> TRUE, key |-> serversMap(res)]]

\* options = normalizeOptions(options), then the three create functions are
\* called, each running up to its first await
CreateServers ==
  /\ pc = "start"
  /\ IF normalizeOptionsError(options) # ""
       THEN /\ calls' = Append(calls, configErrorCall(normalizeOptionsError(options)))
            /\ pc' = "done"
            /\ UNCHANGED <<options, st, err, result>>
       ELSE /\ options' = normalizeOptions(options)
            /\ st' = [l \in Slots |->
                        IF launched(options', l) THEN launch(l[1]) ELSE "none"]
            /\ result' = [c \in ClassSet |-> started(options'[c])]
            /\ pc' = "pending"
            /\ UNCHANGED <<err, calls>>
  /\ UNCHANGED <<input, output>>

\* await Promise.allSettled([...]) resumes
allClassesSettled(res) ==
  \A c \in ClassSet : res[c].status \in {"fulfilled", "rejected"}

\* lines 59-80. errorSource is declared const: the assignment
\* errorSource = errorSource[0] throws a TypeError, which rejects the promise
\* of createServers without the callback having been called.
Aggregate ==
  /\ pc = "pending"
  /\ allClassesSettled(result)
  /\ IF Truthy(errorSource(result))
       THEN IF IsArray(errorSource(result))
              THEN pc' = "rejected" /\ UNCHANGED calls
              ELSE pc' = "done" /\ calls' = Append(calls, errorCall(result))
       ELSE pc' = "done" /\ calls' = Append(calls, successCall(result))
  /\ UNCHANGED <<options, st, err, result, input, output>>

Next ==
  \/ CreateServers
  \/ \E l \in Slots, ok \in BOOLEAN : ReadDone(l, ok)
  \/ \E l \in Slots, ok \in BOOLEAN : SNIDone(l, ok)
  \/ \E l \in Slots, ok \in BOOLEAN : ListenDone(l, ok)
  \/ \E c \in ClassSet : CreateMultipleDone(c)
  \/ Aggregate

Spec == Init /\ [][Next]_vars

(* ---------------------------------------------------------------------- *)
(* One listener's options: normalization                                   *)
(* ---------------------------------------------------------------------- *)

\* the properties a configuration object is given here
ObjFields ==
  {"port", "host", "handler", "timeout", "keepAliveTimeout", "root", "key",
   "cert", "ca", "ciphers", "honorCipherOrder", "secureProtocol",
   "secureOptions", "requestCert", "allowHTTP1", "sni", "SNICallback"}

\* {}
EmptyFields == [f \in ObjFields |-> Missing]

\* typeof x
TypeOf(x) ==
  CASE x.t \in {"undefined", "missing"} -> "undefined"
    [] x.t \in {"num", "nan"} -> "number"
    [] x.t \in {"str", "pem", "path", "text"} -> "string"
    [] x.t = "bool" -> "boolean"
    [] x.t = "fn" -> "function"
    [] OTHER -> "object"

\* x[f]: undefined for a property the object does not have and for every
\* property of a number or a string
Get(x, f) ==
  IF x.t = "obj" /\ x.v[1][f].t # "missing" THEN x.v[1][f] ELSE Undefined

\* f in x, for an object x
In(f, x) == x.v[1][f].t # "missing"

RECURSIVE Decimal(_)
Decimal(s) ==
  IF s = <<>> THEN 0 ELSE 10 * Decimal(SubSeq(s, 1, Len(s) - 1)) + s[Len(s)]

\* +x (ToNumber)
ToNumber(x) ==
  CASE x.t = "num" -> x
    [] x.t = "null" -> Num(0)
    [] x.t = "bool" -> IF x.v[1] THEN Num(1) ELSE Num(0)
    [] x.t = "str" ->
         IF \A i \in 1..Len(x.v) : x.v[i] \in 0..9 THEN Num(Decimal(x.v)) ELSE NaN
    [] OTHER -> NaN

Return(x) == [threw |-> "", value |-> x]

Throw(message) == [threw |-> message, value |-> Undefined]

\* the five properties both normalizers set (lines 115-121, 139-143)
inherited(config, baseConfig, port) ==
  [host |-> Or(Get(config, "host"), Get(baseConfig, "host")),
   port |-> ToNumber(port),
   handler |-> Or(Get(config, "handler"), Get(baseConfig, "handler")),
   timeout |-> Or(Get(config, "timeout"), Get(baseConfig, "timeout")),
   keepAliveTimeout |->
     Or(Get(config, "keepAliveTimeout"), Get(baseConfig, "keepAliveTimeout"))]

\* { ...a, ...b }: the properties of b, then those a alone has
Spread(a, b) ==
  [f \in ObjFields |->
     IF f \in DOMAIN b THEN b[f] ELSE IF f \in DOMAIN a THEN a[f] ELSE Missing]

\* the default port of the plaintext class (line 113)
DefaultHttpPort == 80

\* the default port of the encrypted classes (line 141)
DefaultHttpsPort == 443

\* typeof httpConfig === 'object' && 'port' in httpConfig
\*   ? httpConfig.port : httpConfig
httpPort(httpConfig) ==
  IF TypeOf(httpConfig) = "object" /\ In("port", httpConfig)
    THEN Get(httpConfig, "port")
    ELSE httpConfig

\* mutation: the port is not converted to a number
normalizeHttpOptionsNoCoerce(httpConfig, baseConfig) ==
  LET port == IF TypeOf(httpPort(httpConfig)) = "undefined"
                THEN Num(DefaultHttpPort) ELSE httpPort(httpConfig)
      http == [inherited(httpConfig, baseConfig, port) EXCEPT !.port = port]
  IN  IF ~Truthy(http.handler)
        THEN Throw("handler option is required")
        ELSE Return(Obj(Spread(EmptyFields, http)))

\* normalizeHttpOptions for one listener config (lines 107-127)
normalizeHttpOptions(httpConfig, baseConfig) ==
  LET port == IF TypeOf(httpPort(httpConfig)) = "undefined"
                THEN Num(DefaultHttpPort) ELSE httpPort(httpConfig)
      http == inherited(httpConfig, baseConfig, port)
  IN  IF ~Truthy(http.handler)
        THEN Throw("handler option is required")
        ELSE Return(Obj(Spread(EmptyFields, http)))

\* normalizeHttpsOptions for one listener config (lines 137-150);
\* 'port' in httpsConfig throws a TypeError for a number or a string
normalizeHttpsOptions(httpsConfig, baseConfig) ==
  IF httpsConfig.t # "obj"
    THEN Throw("TypeError: Cannot use 'in' operator to search for 'port'")
    ELSE
      LET port == IF In("port", httpsConfig)
                    THEN Get(httpsConfig, "port") ELSE Num(DefaultHttpsPort)
          https == inherited(httpsConfig, baseConfig, port)
      IN  IF ~Truthy(https.handler)
            THEN Throw("handler option is required")
            ELSE Return(Obj(Spread(httpsConfig.v[1], https)))

\* normalizeOptions, lines 84-86: the normalizer of each class
normalizeListener(class, config, baseConfig) ==
  IF class = "http"
    THEN normalizeHttpOptions(config, baseConfig)
    ELSE normalizeHttpsOptions(config, baseConfig)

\* commonPostCreateSetup: what is set on the server ("missing": left at the
\* default of the platform)
commonPostCreateSetup(config) ==
  [timeout |-> IF TypeOf(Get(config, "timeout")) = "number"
                 THEN Get(config, "timeout") ELSE Missing,
   keepAliveTimeout |-> IF TypeOf(Get(config, "keepAliveTimeout")) = "number"
                          THEN Get(config, "keepAliveTimeout") ELSE Missing]

(* ---------------------------------------------------------------------- *)
(* One listener's options: credentials and the secure server's options     *)
(* ---------------------------------------------------------------------- *)

\* the separators of Array.prototype.join: '\n', ':' and the default ','
LF == Chunk("sep", "", "LF")

Colon == Chunk("sep", "", ":")

Comma == Chunk("sep", "", ",")

RECURSIVE ToText(_)
RECURSIVE Join(_, _)
\* String(x) as join applies it: a Buffer is decoded, an array is joined
\* with commas, undefined and null give ''
ToText(x) ==
  CASE x.t \in {"pem", "path", "text", "buffer"} -> x.v
    [] x.t = "array" -> Join(x.v, Comma)
    [] x.t \in {"undefined", "null"} -> <<>>

\* items.join(sep)
Join(items, sep) ==
  IF items = <<>> THEN <<>>
  ELSE IF Len(items) = 1 THEN ToText(items[1])
  ELSE Join(SubSeq(items, 1, Len(items) - 1), sep) \o <<sep>>
         \o ToText(items[Len(items)])

\* Promise.all: the array of the results, or the rejection of an element
All(results) ==
  IF \E i \in 1..Len(results) : results[i].t = "error"
    THEN results[CHOOSE i \in 1..Len(results) : results[i].t = "error"]
    ELSE Arr(results)

\* the files that cannot be read
Unreadable == {"gone.pem"}

\* the file paths that are absolute
AbsolutePaths == {"/etc/d.crt"}

\* path.resolve(root, file) throws: the file is relative and the root,
\* which is then looked at, is not a string
resolveThrows(root, file) ==
  LitOf(file) \notin AbsolutePaths /\ TypeOf(root) # "string"

\* path.resolve(root, file): an absolute file is taken as it is
resolve(root, file) ==
  Chunk("file", IF LitOf(file) \in AbsolutePaths THEN "" ELSE LitOf(root),
        LitOf(file))

\* fs.readFile(path.resolve(root, file))
readFile(root, file) ==
  IF resolveThrows(root, file) THEN Failed("ERR_INVALID_ARG_TYPE")
  ELSE IF LitOf(file) \in Unreadable THEN Failed("ENOENT")
  ELSE Buffer(<<resolve(root, file)>>)

\* mutation: no string is taken for PEM material
pemFormatNever(file) == FALSE

\* pemFormat.test(file)
pemFormat(file) == file.t = "pem"

RECURSIVE normalizePEMContent(_, _)
normalizePEMContent(root, file) ==
  IF IsArray(file)
    THEN All([i \in 1..Len(file.v) |-> normalizePEMContent(root, file.v[i])])
  ELSE IF TypeOf(file) # "string" \/ pemFormat(file) THEN file
  ELSE readFile(root, file)

\* mutation: the chain is joined as Array.prototype.toString joins it
normalizeCertChainComma(root, data) ==
  LET content == normalizePEMContent(root, data)
  IN  IF IsArray(content) THEN Text(Join(content.v, Comma)) ELSE content

normalizeCertChain(root, data) ==
  LET content == normalizePEMContent(root, data)
  IN  IF IsArray(content) THEN Text(Join(content.v, LF)) ELSE content

normalizeCertChainList(root, data) ==
  IF IsArray(data)
    THEN All([i \in 1..Len(data.v) |-> normalizeCertChain(root, data.v[i])])
    ELSE normalizePEMContent(root, data)

normalizeCertContent(root, cert, key) ==
  IF IsArray(cert)
    THEN IF IsArray(key)
           THEN normalizeCertChainList(root, cert)
           ELSE normalizeCertChain(root, cert)
    ELSE normalizePEMContent(root, cert)

normalizeCA(root, ca) ==
  IF ~Truthy(ca) THEN ca
  ELSE LET list == IF IsArray(ca) THEN ca.v ELSE <<ca>>
       IN  All([i \in 1..Len(list) |-> normalizePEMContent(root, list[i])])

\* the default cipher list (lines 21-38)
CIPHERS ==
  Text(Join(<<Lit("ECDHE-RSA-AES256-SHA384"), Lit("DHE-RSA-AES256-SHA384"),
              Lit("ECDHE-RSA-AES256-SHA256"), Lit("DHE-RSA-AES256-SHA256"),
              Lit("ECDHE-RSA-AES128-SHA256"), Lit("DHE-RSA-AES128-SHA256"),
              Lit("HIGH"), Lit("!aNULL"), Lit("!eNULL"), Lit("!EXPORT"),
              Lit("!DES"), Lit("!RC4"), Lit("!MD5"), Lit("!PSK"), Lit("!SRP"),
              Lit("!CAMELLIA")>>, Colon))

\* mutation: the array is joined as Array.prototype.toString joins it
normalizeCiphersComma(ciphers) ==
  LET list == Or(ciphers, CIPHERS)
  IN  IF IsArray(list) THEN Text(Join(list.v, Comma)) ELSE list

normalizeCiphers(ciphers) ==
  LET list == Or(ciphers, CIPHERS)
  IN  IF IsArray(list) THEN Text(Join(list.v, Colon)) ELSE list

\* constants.SSL_OP_NO_SSLv3
SSL_OP_NO_SSLv3 == 33554432

secureOptions == Num(SSL_OP_NO_SSLv3)

\* assign(a, b) of object-assign: the own properties of b, also those that
\* hold undefined, over those of a
Assign(a, b) ==
  [f \in ObjFields |->
     IF f \in DOMAIN b /\ b[f].t # "missing" THEN b[f] ELSE a[f]]

\* the first rejection among the credential reads of one Promise.all
firstFailure(key, cert, ca) ==
  IF key.t = "error" THEN key ELSE IF cert.t = "error" THEN cert ELSE ca

\* the properties createHttps and getSNIHandler set themselves
forced(key, cert, ca, ciphers, honorCipherOrder) ==
  [key |-> key, cert |-> cert, ca |-> ca,
   ciphers |-> normalizeCiphers(ciphers),
   honorCipherOrder |-> Bool(Truthy(honorCipherOrder)),
   secureProtocol |-> Lit("SSLv23_method"),
   secureOptions |-> secureOptions]

\* mutation: what the caller wrote wins over what createHttps sets
finalHttpsOptionsCallerWins(ssl, key, cert, ca) ==
  Assign(Assign(EmptyFields,
                forced(key, cert, ca, Get(ssl, "ciphers"),
                       Get(ssl, "honorCipherOrder"))),
         ssl.v[1])

\* mutation: only what createHttps sets is handed on
finalHttpsOptionsForcedOnly(ssl, key, cert, ca) ==
  Assign(EmptyFields,
         forced(key, cert, ca, Get(ssl, "ciphers"),
                Get(ssl, "honorCipherOrder")))

\* createHttps, lines 339-355: assign({}, ssl, { key, cert, ca, ... })
finalHttpsOptions(ssl, key, cert, ca) ==
  Assign(Assign(EmptyFields, ssl.v[1]),
         forced(key, cert, ca, Get(ssl, "ciphers"),
                Get(ssl, "honorCipherOrder")))

\* getSNIHandler, lines 246-268: the secure context options of one host,
\* or the rejection of one of its credential reads
hostSecureContext(sslOpts, hostOpts) ==
  LET root == Or(Get(hostOpts, "root"), Get(sslOpts, "root"))
      key == normalizePEMContent(root, Get(hostOpts, "key"))
      cert == normalizeCertContent(root, Get(hostOpts, "cert"), Undefined)
      ca == normalizeCA(root, Or(Get(hostOpts, "ca"), Get(sslOpts, "ca")))
  IN  IF "error" \in {key.t, cert.t, ca.t}
        THEN firstFailure(key, cert, ca)
        ELSE Obj(Assign(Assign(Assign(EmptyFields, sslOpts.v[1]), hostOpts.v[1]),
                        forced(key, cert, ca,
                               Or(Get(hostOpts, "ciphers"),
                                  Get(sslOpts, "ciphers")),
                               Or(Get(hostOpts, "honorCipherOrder"),
                                  Get(sslOpts, "honorCipherOrder")))))

\* getSNIHandler: the secure contexts of the hosts, in the order of the
\* keys of sslOpts.sni
getSNIHandler(sslOpts) ==
  LET sni == Get(sslOpts, "sni").v
  IN  All([i \in 1..Len(sni) |-> hostSecureContext(sslOpts, Obj(sni[i].opts))])

\* createHttps for one config (lines 334-378), up to the bind: what is
\* handed to the collaborator, or the exception thrown
createHttps(ssl, isH2) ==
  LET key == normalizePEMContent(Get(ssl, "root"), Get(ssl, "key"))
      cert == normalizeCertContent(Get(ssl, "root"), Get(ssl, "cert"),
                                   Get(ssl, "key"))
      ca == normalizeCA(Get(ssl, "root"), Get(ssl, "ca"))
      final == finalHttpsOptions(ssl, key, cert, ca)
      withSNI == Truthy(Get(ssl, "sni")) /\ ~Truthy(final.SNICallback)
      contexts == IF withSNI THEN getSNIHandler(ssl) ELSE Arr(<<>>)
  IN  IF "error" \in {key.t, cert.t, ca.t}
        THEN Throw(firstFailure(key, cert, ca).v[1])
      ELSE IF contexts.t = "error" THEN Throw(contexts.v[1])
      ELSE Return(
        [collaborator |-> IF isH2 THEN "http2.createSecureServer"
                                  ELSE "https.createServer",
         options |-> IF withSNI
                       THEN [final EXCEPT !.SNICallback = Fn("getSNIHandler")]
                       ELSE final,
         contexts |-> contexts.v,
         handler |-> Get(ssl, "handler"),
         setup |-> commonPostCreateSetup(ssl),
         port |-> Get(ssl, "port"),
         host |-> Get(ssl, "host")])

(* ---------------------------------------------------------------------- *)
(* One listener's options: the configurations followed                     *)
(* ---------------------------------------------------------------------- *)

\* port values: no property, undefined, null, false, 0, 8443, '', '80'
PortValues ==
  {Missing, Undefined, Null, Bool(FALSE), Num(0), Num(8443), Str(<<>>),
   Str(<<8, 0>>)}

\* listener configs given as objects
ObjectConfigs ==
  {Obj(Spread(EmptyFields, r)) :
     r \in [port : PortValues,
            host : {Missing, Str(<<20>>)},
            handler : {Missing, Fn("own")},
            timeout : {Missing, Num(0), Num(5)},
            keepAliveTimeout : {Missing, Num(0)}]}

\* listener configs given as a bare port: 0, 8080, '98'
ShorthandConfigs == {Num(0), Num(8080), Str(<<9, 8>>)}

\* the top-level configuration
BaseConfigs ==
  {Obj(Spread(EmptyFields, r)) :
     r \in [host : {Missing, Str(<<21>>)},
            handler : {Missing, Fn("top")},
            timeout : {Missing, Num(7)},
            keepAliveTimeout : {Missing, Num(9)}]}

NormInputs ==
  [class : ClassSet, config : ObjectConfigs \cup ShorthandConfigs,
   base : BaseConfigs]

\* the longest certificate chain followed
MaxChain == 2

\* one piece of credential material: inline PEM, a readable file, a file
\* that cannot be read
Materials == {Pem("A"), Path("b.crt"), Path("gone.pem")}

\* chains [c1..cn]
Chains == {Arr(c) : c \in SeqsUpTo(Materials, MaxChain) \ {<<>>}}

\* lists of two units of which at least one is a sub-chain
ChainLists ==
  {Arr(<<Pem("A"), Arr(<<Path("b.crt"), Pem("C")>>)>>),
   Arr(<<Arr(<<Pem("A"), Path("b.crt")>>), Path("d.crt")>>),
   Arr(<<Arr(<<Pem("A"), Path("b.crt")>>), Arr(<<Pem("C")>>)>>),
   Arr(<<Arr(<<Pem("A"), Path("gone.pem")>>), Pem("C")>>)}

CertValues == Materials \cup Chains \cup ChainLists

\* one key, or the keys of two certificates
KeyValues ==
  {Pem("K"), Path("k.key"), Arr(<<Pem("K1"), Path("k2.key")>>)}

\* the value of sni: the hosts in the order of their keys
Sni(hosts) == [t |-> "sni", v |-> hosts]

\* the per-host credentials followed
HostCredentials ==
  {[key |-> Pem("K"), cert |-> Pem("A")],
   [key |-> Pem("K"), cert |-> Arr(<<Pem("A"), Path("b.crt")>>)],
   [key |-> Arr(<<Pem("K1"), Path("k2.key")>>),
    cert |-> Arr(<<Pem("A"), Path("b.crt")>>)],
   [key |-> Arr(<<Pem("K1"), Path("k2.key")>>),
    cert |-> Arr(<<Arr(<<Pem("A"), Path("b.crt")>>), Pem("C")>>)]}

\* the top-level configuration of the encrypted listeners followed
SecureBase ==
  Obj(Spread(EmptyFields,
             [host |-> Str(<<21>>), handler |-> Fn("top"), timeout |-> Num(7)]))

\* encrypted listeners that differ in their credentials
CredInputs ==
  {[class |-> c, base |-> SecureBase,
    config |-> Obj(Spread(EmptyFields,
                 [port |-> Num(8443), root |-> Lit("R1"), key |-> k,
                  cert |-> ct, ca |-> ca, sni |-> sni]))] :
     c \in {"https", "http2"}, k \in KeyValues, ct \in CertValues,
     ca \in {Missing, Path("ca.pem"), Arr(<<Pem("CA1"), Path("ca.pem")>>)},
     sni \in {Missing} \cup
             {Sni(<<[host |-> "*.example.org",
                    opts |-> Spread(EmptyFields, h)]>>) :
                h \in HostCredentials}}

\* what a caller may write for ciphers: nothing, '', a list, an array
CipherValues ==
  {Missing, Lit("AES128"), Text(<<>>), Arr(<<Lit("AES128"), Lit("HIGH")>>)}

\* what a caller may write for secureProtocol and secureOptions
SecureValues ==
  {[secureProtocol |-> Missing, secureOptions |-> Missing],
   [secureProtocol |-> Lit("SSLv3_method"), secureOptions |-> Num(0)]}

\* properties handed through to the collaborator
PassThroughValues ==
  {[requestCert |-> Missing, allowHTTP1 |-> Missing],
   [requestCert |-> Bool(TRUE), allowHTTP1 |-> Bool(FALSE)]}

\* the per-host options followed
HostOptions ==
  {Spread(Spread(EmptyFields, sv),
          [key |-> Pem("HK"), cert |-> Path("h.crt"), root |-> r, ciphers |-> ci]) :
     sv \in SecureValues, r \in {Missing, Lit("R2")},
     ci \in {Missing, Lit("AES256")}}

\* encrypted listeners that differ in the options of the secure server
SecureInputs ==
  {[class |-> c, base |-> SecureBase,
    config |-> Obj(Spread(Spread(Spread(EmptyFields, sv), pt),
                 [port |-> p, timeout |-> t, root |-> Lit("R1"),
                  key |-> Pem("K"), cert |-> Path("b.crt"), ciphers |-> ci,
                  honorCipherOrder |-> h, SNICallback |-> cb, sni |-> sni]))] :
     c \in {"https", "http2"}, sv \in SecureValues, pt \in PassThroughValues,
     p \in {Num(8443), Str(<<3, 4>>)}, t \in {Missing, Num(0)},
     ci \in CipherValues, h \in {Missing, Bool(TRUE)},
     cb \in {Missing, Fn("own SNICallback")},
     sni \in {Missing} \cup
             {Sni(<<[host |-> "*", opts |-> o]>>) : o \in HostOptions}}

\* what an sni host may set of the fields that have a top-level default
HostOverrides ==
  [key : {Missing, Pem("HK")}, cert : {Missing, Path("h.crt")},
   ca : {Missing, Pem("HCA")}, ciphers : {Missing, Lit("AES256")},
   honorCipherOrder : {Missing, Bool(FALSE), Bool(TRUE)}]

\* encrypted listeners with one sni host that sets some of the fields
SniInputs ==
  {[class |-> c, base |-> SecureBase,
    config |-> Obj(Spread(EmptyFields,
                 [port |-> Num(8443), root |-> Lit("R1"), key |-> Pem("K"),
                  cert |-> Path("b.crt"), ca |-> ca, ciphers |-> ci,
                  honorCipherOrder |-> h,
                  sni |-> Sni(<<[host |-> "a.a",
                                 opts |-> Spread(EmptyFields, o)]>>)]))] :
     c \in {"https", "http2"}, ca \in {Missing, Path("ca.pem")},
     ci \in {Missing, Lit("AES128")}, h \in {Missing, Bool(TRUE)},
     o \in HostOverrides}

ListenerInputs == NormInputs \cup CredInputs \cup SecureInputs \cup SniInputs

OptionsInit ==
  /\ input \in ListenerInputs
  /\ output = [stage |-> "raw"]
  /\ options = <<>>
  /\ pc = "off"
  /\ st = [l \in Slots |-> "none"]
  /\ err = [l \in Slots |-> ""]
  /\ result = [c \in ClassSet |-> NotCalled]
  /\ calls = <<>>

\* mutation: the normalized listener is written into the caller's object
NormalizeInPlace ==
  /\ output.stage = "raw"
  /\ LET norm == normalizeListener(input.class, input.config, input.base)
     IN  /\ output' = [stage |-> "normalized", norm |-> norm]
         /\ input' = IF norm.threw = "" THEN [input EXCEPT !.config = norm.value]
                     ELSE input
  /\ UNCHANGED <<options, pc, st, err, result, calls>>

\* options = normalizeOptions(options), for the one listener: the
\* normalized listener is a new object and the caller's is left as it was
Normalize ==
  /\ output.stage = "raw"
  /\ output' = [stage |-> "normalized",
                norm |-> normalizeListener(input.class, input.config, input.base)]
  /\ UNCHANGED <<options, pc, st, err, result, calls, input>>

\* createHttp: the server is created, set up and its bind issued
CreateHttp ==
  /\ output.stage = "normalized"
  /\ input.class = "http"
  /\ output.norm.threw = ""
  /\ output' = [stage |-> "created", norm |-> output.norm,
                server |-> commonPostCreateSetup(output.norm.value)]
  /\ UNCHANGED <<options, pc, st, err, result, calls, input>>

\* createHttps: the credentials are read, the options of the secure server
\* built, the server created, set up and its bind issued
CreateHttps ==
  /\ output.stage = "normalized"
  /\ input.class # "http"
  /\ output.norm.threw = ""
  /\ output' = [stage |-> "created", norm |-> output.norm,
                created |-> createHttps(output.norm.value,
                                        input.class = "http2")]
  /\ UNCHANGED <<options, pc, st, err, result, calls, input>>

\* createServers is called once more with the object the caller still
\* holds, after the listener was created or its normalization threw
CreateServersAgain ==
  /\ \/ output.stage = "created"
     \/ output.stage = "normalized" /\ output.norm.threw # ""
  /\ output' = [stage |-> "again", norm |-> output.norm,
                again |-> normalizeListener(input.class, input.config,
                                            input.base)]
  /\ UNCHANGED <<options, pc, st, err, result, calls, input>>

OptionsNext ==
  \/ Normalize
  \/ CreateHttp
  \/ CreateHttps
  \/ CreateServersAgain

OptionsSpec == OptionsInit /\ [][OptionsNext]_vars

TypeOK ==
  /\ pc \in {"start", "pending", "done", "rejected"}
  /\ \A l \in Slots : st[l] \in {"none", "reading", "sni", "binding", "listening", "failed"}
  /\ \A c \in ClassSet : result[c].status \in {"idle", "pending", "fulfilled", "rejected"}

(* ---------------------------------------------------------------------- *)
(* Vocabulary of the properties, read off the configuration and the        *)
(* listeners' states                                                       *)
(* ---------------------------------------------------------------------- *)

RequestedSlots == {l \in Slots : Requested(options, l)}

\* some requested listener has no handler of its own and there is no
\* top-level handler (normalized options carry the resolved handlers and no
\* top-level one)
HandlerMissing ==
  \E l \in RequestedSlots :
    /\ ~Cfg(options, l).handler
    /\ "handler" \in DOMAIN options => ~options.handler

NoneRequested == \A c \in ClassSet : options[c].shape = "undefined"

Valid == ~HandlerMissing /\ ~NoneRequested

Called == calls # <<>>

FailedIn(c) == {i \in 1..Len(options[c].cfgs) : st[<<c, i>>] = "failed"}

BoundIn(c) == {i \in 1..Len(options[c].cfgs) : st[<<c, i>>] = "listening"}

Terminated == pc \in {"done", "rejected"}

(* ---------------------------------------------------------------------- *)
(* C1 - C10                                                                *)
(* ---------------------------------------------------------------------- *)

\* C1: once the configuration has normalized, the completion callback is
\* not invoked while a requested listener is still pending: whenever the
\* callback has fired, every requested listener is bound or failed.
C1_NoCallbackWhilePending ==
  (Called /\ Valid) => \A l \in RequestedSlots : Settled(st[l])

\* C1 witness: the callback fired for three listeners, two of them in one
\* array, of which some failed and some bound.
C1_Witness ==
  /\ Called /\ Valid
  /\ Cardinality(RequestedSlots) = 3
  /\ \E c \in ClassSet : options[c].shape = "array" /\ Len(options[c].cfgs) = 2
  /\ \E l \in RequestedSlots : st[l] = "failed"
  /\ \E l \in RequestedSlots : st[l] = "listening"

\* C2: createServers ends having invoked the completion callback exactly
\* once; it never ends by throwing or rejecting without the callback.
C2_CallbackExactlyOnce ==
  Terminated => (pc = "done" /\ Len(calls) = 1)

\* C3: for a class configured as an array of which k >= 1 listeners fail,
\* the callback gets an error whose field for the class is an array of
\* exactly k errors and a servers entry for the class that holds the
\* listeners of the class that did bind.
C3_PartialArrayFailure ==
  \A c \in ClassSet :
    (Called /\ Valid /\ options[c].shape = "array" /\ FailedIn(c) # {}) =>
      /\ calls[1].error.defined
      /\ calls[1].error.field[c].t = "array"
      /\ Len(calls[1].error.field[c].v) = Cardinality(FailedIn(c))
      /\ calls[1].servers.defined
      /\ \A i \in BoundIn(c) :
           \E k \in 1..Len(calls[1].servers.key[c].v) :
             calls[1].servers.key[c].v[k] = <<c, i>>

\* C4: when every requested class is a single config, the servers given to
\* the callback hold exactly the listeners that bound: one entry per class
\* that succeeded, none for a class that failed.
C4_ServersAreTheBound ==
  (Called /\ Valid /\ \A c \in ClassSet : options[c].shape # "array") =>
    /\ calls[1].servers.defined
    /\ \A c \in ClassSet :
         calls[1].servers.key[c] =
           IF BoundIn(c) # {} THEN One(<<c, 1>>) ELSE Absent

\* C4 witness: single configs, one class failed, another bound, and the
\* callback got the error together with the bound listener.
C4_Witness ==
  /\ Called /\ Valid
  /\ \A c \in ClassSet : options[c].shape # "array"
  /\ calls[1].error.defined
  /\ \E c \in ClassSet : FailedIn(c) # {}
  /\ \E c \in ClassSet : calls[1].servers.key[c] = One(<<c, 1>>)

ReadStep(l) == \E ok \in BOOLEAN : ReadDone(l, ok)

SNIStep(l) == \E ok \in BOOLEAN : SNIDone(l, ok)

ListenStep(l) == \E ok \in BOOLEAN : ListenDone(l, ok)

\* C5: once createServers has started the listeners, every requested
\* listener has been launched, whatever became of the others, and each one
\* that has not settled can take its next step (read completion, SNI
\* completion, bind completion) without waiting for any other listener.
C5_ListenersIndependent ==
  (pc # "start" /\ Valid) =>
    \A l \in RequestedSlots :
      /\ st[l] # "none"
      /\ st[l] = "reading" => ENABLED ReadStep(l)
      /\ st[l] = "sni" => ENABLED SNIStep(l)
      /\ st[l] = "binding" => ENABLED ListenStep(l)

\* C5 witness: a listener failed, and both the other element of its array
\* and a listener of another class went on to bind.
C5_Witness ==
  \E l1, l2, l3 \in RequestedSlots :
    /\ l1[1] = l2[1] /\ l1[2] < l2[2] /\ l3[1] # l1[1]
    /\ st[l1] = "failed" /\ st[l2] = "listening" /\ st[l3] = "listening"

\* C6: the callback's error is undefined exactly when every requested
\* listener bound; when it is defined, its field for a class is set exactly
\* when the class had a failure, and holds one error for a single config
\* and the array of the failed listeners' errors for an array.
C6_ErrorShape ==
  Called =>
    LET e == calls[1].error IN
      /\ ~e.defined <=> (Valid /\ \A l \in RequestedSlots : st[l] = "listening")
      /\ e.defined =>
           \A c \in ClassSet :
             /\ e.field[c].t # "undefined" <=> FailedIn(c) # {}
             /\ (FailedIn(c) # {} /\ options[c].shape = "single") =>
                  e.field[c] = One(Error(err[<<c, 1>>], <<c, 1>>))
             /\ (FailedIn(c) # {} /\ options[c].shape = "array") =>
                  /\ e.field[c].t = "array"
                  /\ Len(e.field[c].v) = Cardinality(FailedIn(c))
                  /\ \A k \in 1..Len(e.field[c].v) :
                       /\ e.field[c].v[k].of[1] = c
                       /\ e.field[c].v[k].of[2] \in FailedIn(c)
                       /\ e.field[c].v[k].message = err[e.field[c].v[k].of]
                       /\ \A m \in 1..(k - 1) :
                            e.field[c].v[m].of[2] < e.field[c].v[k].of[2]

\* C6 witness: an error with a single error for one class, an array of
\* errors for another, and no field for a requested class that bound.
C6_Witness ==
  /\ Called /\ calls[1].error.defined
  /\ \E c \in ClassSet : calls[1].error.field[c].t = "one"
  /\ \E c \in ClassSet : calls[1].error.field[c].t = "array"
  /\ \E c \in ClassSet :
       options[c].shape # "undefined" /\ calls[1].error.field[c].t = "undefined"

\* C7: a class's entry in servers has the shape of its configuration: a
\* single config gives the listener itself, an array gives an array (also
\* an array of one), and when all n elements bind the array holds the n
\* listeners, element i built from config element i.
C7_ShapeMirrorsConfig ==
  (Called /\ calls[1].servers.defined) =>
    \A c \in ClassSet :
      LET entry == calls[1].servers.key[c] IN
        /\ (options[c].shape = "single" /\ entry # Absent) => entry = One(<<c, 1>>)
        /\ (options[c].shape = "array" /\ entry # Absent) => entry.t = "array"
        /\ (options[c].shape = "array"
              /\ BoundIn(c) = 1..Len(options[c].cfgs)) =>
             entry = Arr([i \in 1..Len(options[c].cfgs) |-> <<c, i>>])

\* C7 witness: an array of two that both bound, an array of one, and the
\* callback got both arrays.
C7_Witness ==
  /\ Called /\ calls[1].servers.defined
  /\ \E c, d \in ClassSet :
       /\ options[c].shape = "array" /\ Len(options[c].cfgs) = 2
       /\ calls[1].servers.key[c] = Arr(<<<<c, 1>>, <<c, 2>>>>)
       /\ options[d].shape = "array" /\ Len(options[d].cfgs) = 1
       /\ calls[1].servers.key[d] = Arr(<<<<d, 1>>>>)

\* C8 as stated: servers has a key for a class only if at least one
\* listener of the class was requested, and no key holds null or undefined.
C8_KeyOnlyIfListenerRequested ==
  (Called /\ calls[1].servers.defined) =>
    \A c \in ClassSet :
      calls[1].servers.key[c] # Absent =>
        /\ Len(options[c].cfgs) >= 1
        /\ calls[1].servers.key[c].t \in {"one", "array"}

\* C8 amended: servers has a key for a class only if the class was
\* configured (a single config or an array, an empty array included, which
\* gives an empty array), no key holds null or undefined, and a class that
\* was not configured is absent.
C8_KeyOnlyIfConfigured ==
  (Called /\ calls[1].servers.defined) =>
    \A c \in ClassSet :
      /\ calls[1].servers.key[c] # Absent =>
           /\ options[c].shape # "undefined"
           /\ calls[1].servers.key[c].t \in {"one", "array"}
           /\ Len(options[c].cfgs) = 0 => calls[1].servers.key[c] = Arr(<<>>)
      /\ options[c].shape = "undefined" => calls[1].servers.key[c] = Absent

\* C8 witness: one class not configured and absent from servers, one bound.
C8_Witness ==
  /\ Called /\ calls[1].servers.defined
  /\ \E c, d \in ClassSet :
       /\ options[c].shape = "undefined" /\ calls[1].servers.key[c] = Absent
       /\ calls[1].servers.key[d] = One(<<d, 1>>)

\* C9: when none of http, https, http2 is requested, the callback gets the
\* configuration error and no servers, and nothing is created, read or
\* bound, before or after.
C9_NothingRequested ==
  NoneRequested =>
    /\ pc \in {"start", "done"}
    /\ \A l \in Slots : st[l] = "none"
    /\ \A c \in ClassSet : result[c].status = "idle"
    /\ pc = "start" => calls = <<>>
    /\ pc = "done" =>
         calls = <<configErrorCall("http, https, and/or http2 are required options")>>

\* C9 witness: nothing requested and createServers has returned.
C9_Witness == NoneRequested /\ pc = "done" /\ Called

\* C10: when a requested listener has no handler and there is no top-level
\* handler, the callback gets the configuration error during normalization,
\* and no listener of any class is created, read for or bound.
C10_HandlerRequired ==
  HandlerMissing =>
    /\ pc \in {"start", "done"}
    /\ \A l \in Slots : st[l] = "none"
    /\ \A c \in ClassSet : result[c].status = "idle"
    /\ pc = "start" => calls = <<>>
    /\ pc = "done" => calls = <<configErrorCall("handler option is required")>>

\* C10 witness: the listener without a handler is the second element of an
\* array, next to listeners of another class that have one.
C10_Witness ==
  /\ HandlerMissing /\ pc = "done" /\ Called
  /\ \E c, d \in ClassSet :
       /\ c # d
       /\ options[c].shape = "array" /\ Len(options[c].cfgs) = 2
       /\ options[c].cfgs[1].handler /\ ~options[c].cfgs[2].handler
       /\ options[d].shape = "single" /\ options[d].cfgs[1].handler

\* the classes with requested listeners, all with a resolvable handler
ResolvableClasses ==
  {c \in ClassSet :
     /\ Len(options[c].cfgs) >= 1
     /\ \A i \in 1..Len(options[c].cfgs) :
          \/ options[c].cfgs[i].handler
          \/ "handler" \in DOMAIN options /\ options.handler}

(* ---------------------------------------------------------------------- *)
(* C11 - C20                                                               *)
(* ---------------------------------------------------------------------- *)

\* C11 as stated: when a listener has no handler and there is no top-level
\* handler, only its class fails: the listeners of the other requested
\* classes, whose handlers are resolvable, are still constructed and bound
\* and the callback gets them in servers.
C11_OnlyThatClassFails ==
  (HandlerMissing /\ Terminated) =>
    \A c \in ResolvableClasses :
      /\ \A i \in 1..Len(options[c].cfgs) : st[<<c, i>>] # "none"
      /\ Called /\ calls[1].servers.defined

\* C11 amended: when a listener has no handler and there is no top-level
\* handler, the whole createServers call fails during normalization: the
\* callback gets one configuration error that carries no per-class field
\* and no servers, and no listener of any class, also of the classes whose
\* handlers are resolvable, is constructed or bound.
C11_WholeCallFails ==
  (HandlerMissing /\ Terminated) =>
    /\ Called
    /\ calls[1].error.defined
    /\ \A c \in ClassSet : calls[1].error.field[c].t = "undefined"
    /\ ~calls[1].servers.defined
    /\ \A c \in ResolvableClasses :
         \A i \in 1..Len(options[c].cfgs) : st[<<c, i>>] = "none"

\* C11 witness: one class lacks a handler, another requested class has one,
\* and createServers has returned.
C11_Witness ==
  /\ HandlerMissing /\ Terminated /\ Called
  /\ ResolvableClasses # {}
  /\ \E d \in ClassSet : options[d].shape = "single" /\ ~options[d].cfgs[1].handler

\* C12: a listener whose credential read failed is failed, no bind is ever
\* issued for it, and once createServers has ended the callback has been
\* given the read error in the field of the listener's class and does not
\* hold the listener in servers.
C12_ReadErrorSurfaced ==
  \A l \in RequestedSlots :
    err[l] = "ENOENT" =>
      /\ st[l] = "failed"
      /\ Terminated =>
           /\ Called
           /\ calls[1].error.defined
           /\ \E k \in 1..Len(calls[1].error.field[l[1]].v) :
                calls[1].error.field[l[1]].v[k] = Error("ENOENT", l)
           /\ \A k \in 1..Len(calls[1].servers.key[l[1]].v) :
                calls[1].servers.key[l[1]].v[k] # l

\* a server has been created for listener l: its bind was issued
ServerCreated(l) ==
  \/ st[l] \in {"binding", "listening"}
  \/ st[l] = "failed" /\ err[l] = "EADDRINUSE"

\* C20: every server created from an http2 configuration, a single object
\* or an element of an array, is created by http2.createSecureServer, and
\* every server created from an https configuration by https.createServer.
C20_Http2Collaborator ==
  \A l \in RequestedSlots :
    ServerCreated(l) =>
      /\ l[1] = "http2" => createServer(options, l) = "http2.createSecureServer"
      /\ l[1] = "https" => createServer(options, l) = "https.createServer"

(* ---------------------------------------------------------------------- *)
(* getSNIHandler: the patterns, the contexts and the dispatch              *)
(* ---------------------------------------------------------------------- *)

\* the most labels of a hostname looked up
MaxLabels == 3

\* the most keys of an sni map
MaxHosts == 2

\* the labels of hostnames: a letter in both cases, and a longer label
Labels == {<<"a">>, <<"A">>, <<"a", "a", "a">>}

\* labels.join('.')
RECURSIVE Dotted(_)
Dotted(labels) ==
  IF Len(labels) = 1 THEN labels[1]
  ELSE Dotted(SubSeq(labels, 1, Len(labels) - 1)) \o <<".">> \o labels[Len(labels)]

\* the hostnames a client may ask for
Hostnames == {Dotted(l) : l \in SeqsUpTo(Labels, MaxLabels) \ {<<>>}}

\* the keys of sni: '*', '*.a', '*.a.a', 'a.a', 'a.a.a'
Patterns ==
  {<<"*">>, <<"*", ".", "a">>, <<"*", ".", "a", ".", "a">>, <<"a", ".", "a">>,
   <<"a", ".", "a", ".", "a">>}

\* the sni maps: their keys, which differ, in insertion order
SniMaps ==
  {m \in SeqsUpTo(Patterns, MaxHosts) :
     \A i, j \in 1..Len(m) : m[i] = m[j] => i = j}

\* s.startsWith(p, from i)
OccursAt(s, p, i) ==
  i + Len(p) - 1 <= Len(s) /\ SubSeq(s, i, i + Len(p) - 1) = p

\* s.replace(p, r) for a string p: only the first occurrence is replaced
replace(s, p, r) ==
  IF \E i \in 1..Len(s) : OccursAt(s, p, i)
    THEN LET i == CHOOSE k \in 1..Len(s) :
                    OccursAt(s, p, k) /\ \A j \in 1..(k - 1) : ~OccursAt(s, p, j)
         IN  SubSeq(s, 1, i - 1) \o r \o SubSeq(s, i + Len(p), Len(s))
    ELSE s

\* '(?:.*\\.)?'
OptionalSubDomains == <<"(", "?", ":", ".", "*", "\\", ".", ")", "?">>

\* the source of the regular expression of a host other than '*'
\* (lines 235-239)
regexpSource(host) ==
  <<"^">>
    \o replace(replace(host, <<".">>, <<"\\", ".">>),
               <<"*", "\\", ".">>, OptionalSubDomains)
    \o <<"$">>

\* the parts of the body of a regular expression: the optional group of
\* sub-domains, an escaped character, the wildcard dot, a literal
RECURSIVE parse(_)
parse(src) ==
  IF src = <<>> THEN <<>>
  ELSE IF OccursAt(src, OptionalSubDomains, 1)
    THEN <<[k |-> "subdomains", c |-> ""]>>
           \o parse(SubSeq(src, Len(OptionalSubDomains) + 1, Len(src)))
  ELSE IF src[1] = "\\"
    THEN <<[k |-> "literal", c |-> src[2]]>> \o parse(SubSeq(src, 3, Len(src)))
  ELSE IF src[1] = "."
    THEN <<[k |-> "any", c |-> ""]>> \o parse(Tail(src))
  ELSE <<[k |-> "literal", c |-> src[1]]>> \o parse(Tail(src))

\* host === '*' ? /.*/ : new RegExp('^' + ... + '$', 'i')
hostRegexp(host) ==
  IF host = <<"*">>
    THEN [anchored |-> FALSE, parts |-> <<>>]
    ELSE [anchored |-> TRUE,
          parts |-> parse(SubSeq(regexpSource(host), 2,
                                 Len(regexpSource(host)) - 1))]

\* the flag i
Lower(c) == IF c = "A" THEN "a" ELSE c

\* the parts match the whole of s
RECURSIVE matches(_, _)
matches(parts, s) ==
  IF parts = <<>> THEN s = <<>>
  ELSE IF parts[1].k = "subdomains"
    THEN \/ matches(Tail(parts), s)
         \/ \E n \in 1..Len(s) :
              s[n] = "." /\ matches(Tail(parts), SubSeq(s, n + 1, Len(s)))
  ELSE /\ s # <<>>
       /\ parts[1].k = "literal" => Lower(parts[1].c) = Lower(s[1])
       /\ matches(Tail(parts), Tail(s))

\* regexp.test(hostname); /.*/ matches at the start of every string
test(regexp, hostname) == ~regexp.anchored \/ matches(regexp.parts, hostname)

\* hostRegexps, for every key followed
hostRegexps == [host \in Patterns |-> hostRegexp(host)]

\* the hostnames hostRegexps[host].test(hostname) holds for
testTrue == [host \in Patterns |-> {h \in Hostnames : test(hostRegexps[host], h)}]

\* the hosts of which the regular expression matches the hostname
hits(sni, hostname) == {i \in 1..Len(sni) : hostname \in testTrue[sni[i]]}

\* mutation: the last host that matches is taken
findLastIndex(sni, hostname) ==
  IF hits(sni, hostname) = {} THEN 0
  ELSE CHOOSE i \in hits(sni, hostname) : \A j \in hits(sni, hostname) : j <= i

\* sniHosts.findIndex(...), counted from 1; 0 for -1
findIndex(sni, hostname) ==
  IF hits(sni, hostname) = {} THEN 0
  ELSE CHOOSE i \in hits(sni, hostname) : \A j \in hits(sni, hostname) : i <= j

\* what findIndex has tested: the hosts up to the first that matches
tested(sni, hostname) ==
  [i \in 1..(IF findIndex(sni, hostname) = 0 THEN Len(sni)
             ELSE findIndex(sni, hostname)) |-> hostname \in testTrue[sni[i]]]

\* no secure context
NoContext == [id |-> 0, of |-> 0]

\* no lookup yet
NoLookup == [hostname |-> <<>>, index |-> -1, tested |-> <<>>,
             err |-> "", context |-> NoContext]

SNIInit ==
  /\ input \in [sni : SniMaps]
  /\ output = [stage |-> "building",
               created |-> 0,
               contexts |-> [i \in 1..Len(input.sni) |-> NoContext],
               previous |-> NoLookup,
               last |-> NoLookup]
  /\ options = <<>>
  /\ pc = "off"
  /\ st = [l \in Slots |-> "none"]
  /\ err = [l \in Slots |-> ""]
  /\ result = [c \in ClassSet |-> NotCalled]
  /\ calls = <<>>

\* the async function of host i ends: its credentials are read and its
\* secure context created, or a read is rejected and with it getSNIHandler
CreateSecureContext(i, ok) ==
  /\ output.stage \in {"building", "failed"}
  /\ i \in 1..Len(input.sni)
  /\ output.contexts[i] = NoContext
  /\ IF ok
       THEN output' = [output EXCEPT
                         !.created = @ + 1,
                         !.contexts[i] = [id |-> i, of |-> i]]
       ELSE output' = [output EXCEPT !.stage = "failed"]
  /\ UNCHANGED <<options, pc, st, err, result, calls, input>>

\* mutation: the server is created and bound without awaiting getSNIHandler
ListenUnawaited ==
  /\ output.stage = "building"
  /\ output' = [output EXCEPT !.stage = "bound"]
  /\ UNCHANGED <<options, pc, st, err, result, calls, input>>

\* createHttps resumes after await getSNIHandler(ssl): SNICallback is set,
\* the server created and its bind issued
Listen ==
  /\ output.stage = "building"
  /\ \A i \in 1..Len(input.sni) : output.contexts[i] # NoContext
  /\ output' = [output EXCEPT !.stage = "bound"]
  /\ UNCHANGED <<options, pc, st, err, result, calls, input>>

\* the lookup before, without the hostname it was for
Earlier(lookup) == [lookup EXCEPT !.hostname = <<>>, !.tested = <<>>]

\* mutation: a hostname that no host matches gets the first context
SNICallbackDefault(hostname) ==
  /\ output.stage = "bound"
  /\ LET matchingHostIdx == findIndex(input.sni, hostname)
     IN  output' = [output EXCEPT
           !.previous = Earlier(output.last),
           !.last = [hostname |-> hostname, index |-> matchingHostIdx,
                     tested |-> tested(input.sni, hostname),
                     err |-> "",
                     context |-> IF matchingHostIdx = 0
                                   THEN [id |-> 1, of |-> 1]
                                   ELSE output.contexts[matchingHostIdx]]]
  /\ UNCHANGED <<options, pc, st, err, result, calls, input>>

\* the function getSNIHandler returns, called for a hostname (lines 271-281)
SNICallback(hostname) ==
  /\ output.stage = "bound"
  /\ LET matchingHostIdx == findIndex(input.sni, hostname)
     IN  output' = [output EXCEPT
           !.previous = Earlier(output.last),
           !.last = [hostname |-> hostname, index |-> matchingHostIdx,
                     tested |-> tested(input.sni, hostname),
                     err |-> IF matchingHostIdx = 0
                               THEN "Unrecognized hostname: " ELSE "",
                     context |-> IF matchingHostIdx = 0
                                   THEN NoContext
                                   ELSE output.contexts[matchingHostIdx]]]
  /\ UNCHANGED <<options, pc, st, err, result, calls, input>>

SNINext ==
  \/ \E i \in 1..MaxHosts, ok \in BOOLEAN : CreateSecureContext(i, ok)
  \/ Listen
  \/ \E hostname \in Hostnames : SNICallback(hostname)

SNISpec == SNIInit /\ [][SNINext]_vars

(* ---------------------------------------------------------------------- *)
(* normalizePEMContent and normalizeCiphers on their own                   *)
(* ---------------------------------------------------------------------- *)

\* normalizePEMContent throws before it returns a promise
RECURSIVE throwsIn(_, _)
throwsIn(root, file) ==
  IF IsArray(file)
    THEN \E i \in 1..Len(file.v) : throwsIn(root, file.v[i])
  ELSE IF TypeOf(file) # "string" \/ pemFormat(file) THEN FALSE
  ELSE resolveThrows(root, file)

\* the calls of fs.readFile that normalizePEMContent(root, file) makes, in
\* order: file.map stops at the first element that throws
RECURSIVE readsOf(_, _)
readsOf(root, file) ==
  IF IsArray(file)
    THEN IF file.v = <<>> THEN <<>>
         ELSE readsOf(root, file.v[1])
                \o IF throwsIn(root, file.v[1]) THEN <<>>
                   ELSE readsOf(root, Arr(Tail(file.v)))
  ELSE IF TypeOf(file) # "string" \/ pemFormat(file) THEN <<>>
  ELSE IF resolveThrows(root, file) THEN <<>>
  ELSE <<resolve(root, file)>>

\* single values: PEM text, a relative and an absolute path, a file that
\* cannot be read, a Buffer, undefined
PEMValues ==
  {Pem("A"), Path("b.crt"), Path("/etc/d.crt"), Path("gone.pem"),
   Buffer(<<Chunk("inline", "", "B")>>), Undefined}

\* the arguments of normalizePEMContent followed
PEMInputs ==
  [fn : {"normalizePEMContent"}, root : {Lit("R1"), Undefined},
   value : PEMValues
            \cup {Arr(s) : s \in SeqsUpTo(PEMValues, MaxChain)}
            \cup {Arr(<<Arr(<<Path("b.crt"), Pem("A")>>), Path("/etc/d.crt")>>)}]

\* the arguments of normalizeCiphers followed
CipherInputs ==
  [fn : {"normalizeCiphers"}, root : {Undefined},
   value : {Undefined, Null, Text(<<>>), Lit("AES128"), Arr(<<>>),
            Arr(<<Lit("AES128")>>), Arr(<<Lit("AES128"), Lit("HIGH")>>)}]

FunctionsInit ==
  /\ input \in PEMInputs \cup CipherInputs
  /\ output = [stage |-> "called"]
  /\ options = <<>>
  /\ pc = "off"
  /\ st = [l \in Slots |-> "none"]
  /\ err = [l \in Slots |-> ""]
  /\ result = [c \in ClassSet |-> NotCalled]
  /\ calls = <<>>

\* normalizePEMContent(root, value) settles
PEMContentDone ==
  /\ output.stage = "called"
  /\ input.fn = "normalizePEMContent"
  /\ output' = [stage |-> "returned",
                value |-> normalizePEMContent(input.root, input.value),
                reads |-> readsOf(input.root, input.value)]
  /\ UNCHANGED <<options, pc, st, err, result, calls, input>>

\* normalizeCiphers(value) returns
CiphersDone ==
  /\ output.stage = "called"
  /\ input.fn = "normalizeCiphers"
  /\ output' = [stage |-> "returned", value |-> normalizeCiphers(input.value)]
  /\ UNCHANGED <<options, pc, st, err, result, calls, input>>

\* normalizeCiphers is applied to what it returned
CiphersAgain ==
  /\ output.stage = "returned"
  /\ input.fn = "normalizeCiphers"
  /\ output' = [stage |-> "again", value |-> output.value,
                again |-> normalizeCiphers(output.value)]
  /\ UNCHANGED <<options, pc, st, err, result, calls, input>>

FunctionsNext ==
  \/ PEMContentDone
  \/ CiphersDone
  \/ CiphersAgain

FunctionsSpec == FunctionsInit /\ [][FunctionsNext]_vars

(* ---------------------------------------------------------------------- *)
(* Claims on one listener's options                                        *)
(* ---------------------------------------------------------------------- *)

\* the listener has been normalized without an exception
Normalized == output.stage # "raw" /\ output.norm.threw = ""

\* the port the caller wrote: the port property of an object config
\* ("missing" when it has none), the value itself for a bare port
RawPort ==
  IF input.config.t = "obj" THEN input.config.v[1].port ELSE input.config

\* a property of the normalized listener config
Effective(f) == Get(output.norm.value, f)

InheritedFields == {"host", "handler", "timeout", "keepAliveTimeout"}

\* C13: for every listener config whose port is missing the normalized
\* port is 80 for http and 443 for https and http2; the normalized port is
\* 0 only when the caller gave port 0, so no missing or empty port value
\* (undefined, null, the empty string, false) normalizes to 0.
C13_PortDefaults ==
  Normalized =>
    /\ RawPort.t = "missing" =>
         Effective("port") = Num(IF input.class = "http" THEN 80 ELSE 443)
    /\ Effective("port") = Num(0) => RawPort = Num(0)

\* the configuration is a bare number or a numeric string, and the
\* top-level config has a handler for it
Shorthand ==
  /\ output.stage # "raw"
  /\ input.config.t \in {"num", "str"}
  /\ Truthy(Get(input.base, "handler"))

\* the number a bare port stands for
ShorthandPort ==
  IF input.config.t = "num" THEN input.config.v[1] ELSE Decimal(input.config.v)

\* the shorthand is accepted: one listener config with port n and the four
\* fields of the top-level config
ShorthandAccepted ==
  /\ output.norm.threw = ""
  /\ Effective("port") = Num(ShorthandPort)
  /\ \A f \in InheritedFields : Effective(f) = Get(input.base, f)

\* C14: for each of the classes http, https and http2 a configuration that
\* is a bare number or a numeric string n is accepted as a port-only
\* shorthand: normalization succeeds with port n and host, handler, timeout
\* and keepAliveTimeout inherited from the top-level config.
C14_ShorthandEveryClass == Shorthand => ShorthandAccepted

\* C14 amended: the shorthand is accepted for the class http only, with
\* port n and the four fields inherited; for https and http2 normalization
\* of a bare number or numeric string throws a TypeError.
C14_ShorthandHttpOnly ==
  Shorthand =>
    IF input.class = "http"
      THEN ShorthandAccepted
      ELSE output.norm.threw =
             "TypeError: Cannot use 'in' operator to search for 'port'"

\* C14 witness: http: '98' has been normalized to port 98 with the
\* top-level handler and its server created.
C14_Witness ==
  /\ output.stage = "created"
  /\ input.class = "http"
  /\ input.config = Str(<<9, 8>>)
  /\ Effective("port") = Num(98)
  /\ Effective("handler") = Fn("top")

\* the per-listener config sets the field
SetsExplicitly(f) ==
  /\ input.config.t = "obj"
  /\ input.config.v[1][f].t \notin {"missing", "undefined"}

\* what commonPostCreateSetup has set on the created server
Applied ==
  IF input.class = "http" THEN output.server
  ELSE IF output.created.threw = "" THEN output.created.value.setup
  ELSE [timeout |-> Effective("timeout"),
        keepAliveTimeout |-> Effective("keepAliveTimeout")]

\* C15: for each of host, handler, timeout and keepAliveTimeout the
\* effective value is the per-listener value whenever the per-listener
\* config sets the field (an explicit timeout or keepAliveTimeout of 0
\* included) and the top-level value only when it does not; the effective
\* numeric timeout and keepAliveTimeout are the ones applied to the created
\* server.
C15_ExplicitFieldWins ==
  Normalized =>
    /\ \A f \in InheritedFields :
         Effective(f) = IF SetsExplicitly(f)
                          THEN input.config.v[1][f]
                          ELSE Get(input.base, f)
    /\ output.stage = "created" =>
         \A f \in {"timeout", "keepAliveTimeout"} :
           TypeOf(Effective(f)) = "number" => Applied[f] = Effective(f)

(* ---------------------------------------------------------------------- *)
(* Claims on the credentials and options of an encrypted listener          *)
(* ---------------------------------------------------------------------- *)

\* the secure server of the listener has been created
Created ==
  /\ output.stage = "created"
  /\ input.class # "http"
  /\ output.created.threw = ""

\* a property of the listener config as the caller wrote it ("missing"
\* when the caller did not write it)
Given(f) == IF input.config.t = "obj" THEN input.config.v[1][f] ELSE Missing

\* the options handed to https.createServer / http2.createSecureServer
FinalOptions == output.created.value.options

\* every element of the sequence is one piece of material, not a sequence
Flat(cert) == \A i \in 1..Len(cert.v) : ~IsArray(cert.v[i])

\* the one piece of text a single piece of material resolves to under root
ResolvedChunk(root, m) ==
  IF m.t = "pem" THEN m.v[1] ELSE Chunk("file", LitOf(root), LitOf(m))

\* text is resolve(c1), LF, resolve(c2), ..., LF, resolve(cn)
IsChainOf(text, root, chain) ==
  /\ Len(text) = 2 * Len(chain) - 1
  /\ \A i \in 1..Len(chain) : text[2 * i - 1] = ResolvedChunk(root, chain[i])
  /\ \A i \in 1..(Len(chain) - 1) : text[2 * i] = LF

\* C16: when cert is a sequence [c1..cn] of single pieces of material and
\* key is not a sequence, the cert handed to the secure server is one blob:
\* resolve(c1), ..., resolve(cn) in the given order with one newline
\* between neighbours (n-1 separators, nothing dropped, doubled or moved).
C16_ChainJoined ==
  (Created /\ IsArray(Given("cert")) /\ Flat(Given("cert"))
     /\ ~IsArray(Given("key"))) =>
    /\ FinalOptions.cert.t = "text"
    /\ IsChainOf(FinalOptions.cert.v, Given("root"), Given("cert").v)

\* C16 witness: cert: [PEM A, 'b.crt'] with one key has reached the secure
\* server as A, newline, the content of R1/b.crt.
C16_Witness ==
  /\ Created
  /\ Given("cert") = Arr(<<Pem("A"), Path("b.crt")>>)
  /\ Given("key") = Pem("K")
  /\ FinalOptions.cert =
       Text(<<Chunk("inline", "", "A"), LF, Chunk("file", "R1", "b.crt")>>)

\* r is the resolution of the unit u alone: a single piece of material
\* resolved as itself, a sub-sequence joined into one blob
IsUnitOf(r, root, u) ==
  IF IsArray(u)
    THEN r.t = "text" /\ IsChainOf(r.v, root, u.v)
    ELSE IF u.t = "pem" THEN r = u
         ELSE r = Buffer(<<ResolvedChunk(root, u)>>)

\* cert and key are sequences of the same length
Parallel(cert, key) ==
  IsArray(cert) /\ IsArray(key) /\ Len(cert.v) = Len(key.v)

\* resolved is a sequence as long as cert whose element i is the
\* resolution of cert[i]
PositionallyMatched(resolved, root, cert) ==
  /\ IsArray(resolved)
  /\ Len(resolved.v) = Len(cert.v)
  /\ \A i \in 1..Len(cert.v) : IsUnitOf(resolved.v[i], root, cert.v[i])

\* the sni hosts for which a secure context was built
ContextHosts == 1..Len(output.created.value.contexts)

\* the options of sni host k as the caller wrote them
HostGiven(k, f) == Given("sni").v[k].opts[f]

\* the options handed to tls.createSecureContext for sni host k
ContextOptions(k) == output.created.value.contexts[k].v[1]

\* C17 for the listener's own cert and key
ListenerCertsMatched ==
  (Created /\ Parallel(Given("cert"), Given("key"))) =>
    PositionallyMatched(FinalOptions.cert, Given("root"), Given("cert"))

\* C17: when cert and key are both sequences of equal length n, of a
\* listener or of one of its sni hosts, the resolved cert is a sequence of
\* length n whose element i is the resolution of cert[i] alone, matched
\* with key[i]; material of different positions is never merged.
C17_ParallelCertsMatched ==
  /\ ListenerCertsMatched
  /\ Created =>
       \A k \in ContextHosts :
         Parallel(HostGiven(k, "cert"), HostGiven(k, "key")) =>
           PositionallyMatched(ContextOptions(k).cert,
                               Or(HostGiven(k, "root"), Given("root")),
                               HostGiven(k, "cert"))

\* the caller's cipher list as one colon-joined string
CallerCiphers(ciphers) ==
  IF IsArray(ciphers) THEN Text(Join(ciphers.v, Colon)) ELSE ciphers

\* the caller wrote a cipher list: an array or a string that is not empty
CiphersProvided(ciphers) == ciphers.t = "array" \/ (ciphers.t = "text" /\ ciphers.v # <<>>)

\* the two fixed values are in the options
ForceSet(opts) ==
  /\ opts.secureProtocol = Lit("SSLv23_method")
  /\ opts.secureOptions = Num(SSL_OP_NO_SSLv3)

\* C18: the options handed to the secure server of every encrypted
\* listener and to every per-host secure context carry the fixed
\* secureProtocol and secureOptions whatever the caller wrote for them, and
\* carry the caller's cipher list (the host's, else the listener's) when
\* one is provided and the default list otherwise.
C18_SecurityFieldsForced ==
  Created =>
    /\ ForceSet(FinalOptions)
    /\ FinalOptions.ciphers =
         IF CiphersProvided(Given("ciphers"))
           THEN CallerCiphers(Given("ciphers")) ELSE CIPHERS
    /\ \A k \in ContextHosts :
         /\ ForceSet(ContextOptions(k))
         /\ ContextOptions(k).ciphers =
              IF CiphersProvided(HostGiven(k, "ciphers"))
                THEN CallerCiphers(HostGiven(k, "ciphers"))
              ELSE IF CiphersProvided(Given("ciphers"))
                THEN CallerCiphers(Given("ciphers"))
              ELSE CIPHERS

\* C18 witness: the caller wrote secureProtocol 'SSLv3_method' and
\* secureOptions 0 for the listener and for its sni host and an array of
\* ciphers; the server and the host's context have been created with the
\* fixed values, the joined array and the host's own cipher list.
C18_Witness ==
  /\ Created
  /\ Given("secureProtocol") = Lit("SSLv3_method")
  /\ Given("ciphers") = Arr(<<Lit("AES128"), Lit("HIGH")>>)
  /\ FinalOptions.ciphers =
       Text(<<Chunk("inline", "", "AES128"), Colon, Chunk("inline", "", "HIGH")>>)
  /\ FinalOptions.secureProtocol = Lit("SSLv23_method")
  /\ ContextHosts # {}
  /\ HostGiven(1, "secureOptions") = Num(0)
  /\ ContextOptions(1).secureOptions = Num(SSL_OP_NO_SSLv3)
  /\ ContextOptions(1).ciphers = Lit("AES256")

\* the properties createHttps sets itself
ForcedFields ==
  {"key", "cert", "ca", "ciphers", "honorCipherOrder", "secureProtocol",
   "secureOptions"}

\* the properties normalizeHttpsOptions sets itself
NormalizedFields == {"port"} \cup InheritedFields

FailedClasses == {c \in ClassSet : FailedIn(c) # {}}

\* the first failed class in the order http, https, http2
FirstFailedClass ==
  Classes[CHOOSE k \in 1..Len(Classes) :
            /\ Classes[k] \in FailedClasses
            /\ \A j \in 1..(k - 1) : Classes[j] \notin FailedClasses]

\* the message of the first error of class c: of its one listener, or of the
\* first failed element of its array
FirstMessage(c) ==
  err[<<c, CHOOSE i \in FailedIn(c) : \A j \in FailedIn(c) : i <= j>>]

\* C27: whenever at least one class fails, the callback is given an error
\* whose message is the message of an underlying listener error: of the
\* first failed class in the order http, https, http2 and, when that
\* class's failure is an array of errors, of its first element.
C27_MessageOfFirstFailure ==
  (Terminated /\ FailedClasses # {}) =>
    /\ Called
    /\ calls[1].error.defined
    /\ calls[1].error.message = FirstMessage(FirstFailedClass)

(* ---------------------------------------------------------------------- *)
(* Claims on the SNI dispatch                                              *)
(* ---------------------------------------------------------------------- *)

\* the callback has been called for a hostname
Looked == output.last.index # -1

\* the hosts whose regular expression matches the hostname looked up last
Matching ==
  {i \in 1..Len(input.sni) : output.last.hostname \in testTrue[input.sni[i]]}

\* C21: the callback scans the patterns in configuration order: for every
\* hostname that matches at least one pattern it hands back, without an
\* error, the secure context built for the first matching pattern (lowest
\* index), also when a later pattern is more specific.
C21_FirstMatchWins ==
  (Looked /\ Matching # {}) =>
    /\ output.last.err = ""
    /\ output.last.context # NoContext
    /\ output.last.context.of \in Matching
    /\ \A j \in Matching : output.last.context.of <= j

\* C21 witness: with the keys '*' and 'a.a.a' in this order, 'a.a.a' has
\* been looked up and the context of '*' handed back.
C21_Witness ==
  /\ input.sni = <<<<"*">>, <<"a", ".", "a", ".", "a">>>>
  /\ output.last.hostname = <<"a", ".", "a", ".", "a">>
  /\ output.last.context = [id |-> 1, of |-> 1]

\* C22: a hostname that matches none of the patterns gets the
\* unrecognized-hostname error and no secure context; the failed lookup
\* leaves the table of contexts as it was built, and a lookup of a matching
\* hostname that follows it is handed the context of its pattern.
C22_UnrecognizedHostname ==
  Looked =>
    /\ Matching = {} =>
         /\ output.last.err = "Unrecognized hostname: "
         /\ output.last.context = NoContext
    /\ \A i \in 1..Len(input.sni) : output.contexts[i] = [id |-> i, of |-> i]
    /\ (output.previous.index = 0 /\ Matching # {}) =>
         /\ output.last.err = ""
         /\ output.last.context = output.contexts[output.last.index]
         /\ output.last.index \in Matching

\* C22 witness: a lookup that failed has been followed by one that was
\* handed a context.
C22_Witness ==
  /\ output.previous.index = 0
  /\ output.previous.err = "Unrecognized hostname: "
  /\ output.last.index = 1
  /\ output.last.context = [id |-> 1, of |-> 1]

\* the string in lower case
LowerSeq(s) == [i \in 1..Len(s) |-> Lower(s[i])]

\* h is D, or D preceded by labels that end in a dot, whatever the case
IsSubDomainOf(h, D) ==
  \/ LowerSeq(h) = LowerSeq(D)
  \/ /\ Len(h) > Len(D) + 1
     /\ LowerSeq(SubSeq(h, Len(h) - Len(D), Len(h))) = <<".">> \o LowerSeq(D)

\* C23: the pattern '*' matches every hostname; a pattern '*.D' matches,
\* whatever the case, exactly the hostnames that are D or D preceded by
\* one or more labels ending in a dot, and no other hostname.
C23_WildcardPatterns ==
  Looked =>
    \A i \in 1..Len(output.last.tested) :
      /\ input.sni[i] = <<"*">> => output.last.tested[i]
      /\ (Len(input.sni[i]) > 2 /\ SubSeq(input.sni[i], 1, 2) = <<"*", ".">>) =>
           output.last.tested[i] =
             IsSubDomainOf(output.last.hostname,
                           SubSeq(input.sni[i], 3, Len(input.sni[i])))

\* C25: a pattern without a wildcard matches a hostname if and only if the
\* hostname equals the pattern, whatever the case: every dot of the
\* pattern matches a dot only.
C25_ExactPatterns ==
  Looked =>
    \A i \in 1..Len(output.last.tested) :
      (\A n \in 1..Len(input.sni[i]) : input.sni[i][n] # "*") =>
        output.last.tested[i] =
          (LowerSeq(output.last.hostname) = LowerSeq(input.sni[i]))

DefaultedFields == {"key", "cert", "ca", "ciphers", "honorCipherOrder"}

\* the root the files of sni host k are read under
HostRoot(k) == Or(HostGiven(k, "root"), Given("root"))

\* what sni host k set for the field, resolved
HostResolved(k, f) ==
  CASE f = "key" -> normalizePEMContent(HostRoot(k), HostGiven(k, "key"))
    [] f = "cert" -> normalizeCertContent(HostRoot(k), HostGiven(k, "cert"),
                                          HostGiven(k, "key"))
    [] f = "ca" -> normalizeCA(HostRoot(k), HostGiven(k, "ca"))
    [] f = "ciphers" -> CallerCiphers(HostGiven(k, "ciphers"))
    [] f = "honorCipherOrder" -> HostGiven(k, "honorCipherOrder")

\* the host entry and the listener are without parallel cert and key arrays
\* and the host has no root of its own
PlainHost(k) ==
  /\ ~IsArray(HostGiven(k, "key"))
  /\ HostGiven(k, "root").t = "missing"

\* C24: each of key, cert, ca, ciphers and honorCipherOrder of the secure
\* context of an sni host is the host's value when the host entry sets it
\* and the resolved top-level value of the listener otherwise: a host
\* without key or cert gets the top-level key or cert, and a host's
\* honorCipherOrder false is not overridden by a top-level true.
C24_HostDefaults ==
  Created =>
    \A k \in ContextHosts :
      PlainHost(k) =>
        \A f \in DefaultedFields :
          ContextOptions(k)[f] =
            IF HostGiven(k, f).t # "missing"
              THEN HostResolved(k, f) ELSE FinalOptions[f]

(* ---------------------------------------------------------------------- *)
(* Claims on normalizePEMContent and normalizeCiphers                      *)
(* ---------------------------------------------------------------------- *)

\* the value is a string that is not PEM material: the path of a file
IsPath(v) == TypeOf(v) = "string" /\ v.t # "pem"

\* r is the resolution of v: v itself when it is no path, the content of
\* the file otherwise, element by element for a sequence
RECURSIVE IsResolutionOf(_, _, _)
IsResolutionOf(r, root, v) ==
  IF IsArray(v)
    THEN /\ IsArray(r)
         /\ Len(r.v) = Len(v.v)
         /\ \A i \in 1..Len(v.v) : IsResolutionOf(r.v[i], root, v.v[i])
  ELSE IF IsPath(v)
    THEN r = Buffer(<<Chunk("file",
                            IF LitOf(v) \in AbsolutePaths THEN "" ELSE LitOf(root),
                            LitOf(v))>>)
  ELSE r = v

\* the number of paths in the value
RECURSIVE PathsIn(_)
PathsIn(v) ==
  IF IsArray(v)
    THEN IF v.v = <<>> THEN 0 ELSE PathsIn(v.v[1]) + PathsIn(Arr(Tail(v.v)))
  ELSE IF IsPath(v) THEN 1 ELSE 0

\* normalizePEMContent was called with a root and has returned a value
PEMReturned ==
  /\ output.stage = "returned"
  /\ input.fn = "normalizePEMContent"
  /\ TypeOf(input.root) = "string"

\* C28: the resolver makes no read and returns its value as it is when the
\* value is no string or is a string with the PEM marker; for any other
\* string it makes exactly one read, of the path resolved against root (an
\* absolute path as it is), and returns that content; for a sequence it
\* returns a sequence of the same length and order whose element i is the
\* resolution of element i.
C28_PEMContentResolved ==
  PEMReturned =>
    /\ Len(output.reads) = PathsIn(input.value)
    /\ (~IsArray(input.value) /\ ~IsPath(input.value)) =>
         output.value = input.value /\ output.reads = <<>>
    /\ (~IsArray(input.value) /\ IsPath(input.value)) =>
         output.reads =
           <<Chunk("file",
                   IF LitOf(input.value) \in AbsolutePaths THEN ""
                   ELSE LitOf(input.root),
                   LitOf(input.value))>>
    /\ output.value.t # "error" =>
         IsResolutionOf(output.value, input.root, input.value)

\* C28 witness: [PEM A, '/etc/d.crt'] under root R1 has been resolved to
\* [A, the content of /etc/d.crt] with one read.
C28_Witness ==
  /\ PEMReturned
  /\ input.value = Arr(<<Pem("A"), Path("/etc/d.crt")>>)
  /\ output.value =
       Arr(<<Pem("A"), Buffer(<<Chunk("file", "", "/etc/d.crt")>>)>>)
  /\ output.reads = <<Chunk("file", "", "/etc/d.crt")>>

\* normalizeCiphers has returned
CiphersReturned ==
  input.fn = "normalizeCiphers" /\ output.stage \in {"returned", "again"}

\* text is the names joined by ':' in order
IsColonJoined(text, names) ==
  /\ Len(text) = IF names = <<>> THEN 0 ELSE 2 * Len(names) - 1
  /\ \A i \in 1..Len(names) : text[2 * i - 1] = names[i].v[1]
  /\ \A i \in 1..(Len(names) - 1) : text[2 * i] = Colon

\* C29: cipher normalization always returns a string: an absent value
\* gives the default suite, a sequence of names the names joined by ':' in
\* order, and a string is returned unchanged, so that normalizing the
\* result again changes nothing.
C29_CiphersNormalized ==
  CiphersReturned =>
    /\ TypeOf(output.value) = "string"
    /\ input.value.t \in {"undefined", "null"} => output.value = CIPHERS
    /\ IsArray(input.value) =>
         output.value.t = "text" /\ IsColonJoined(output.value.v, input.value.v)
    /\ TypeOf(input.value) = "string" => output.value = input.value
    /\ output.stage = "again" => output.again = output.value

\* C29 amended: an absent value and the empty string give the default
\* suite, a sequence of names the names joined by ':' in order (the empty
\* sequence the empty string), a string that is not empty is returned
\* unchanged; normalizing the result again changes nothing unless the
\* result is the empty string, which becomes the default suite.
C29_CiphersNormalizedNonEmpty ==
  CiphersReturned =>
    /\ TypeOf(output.value) = "string"
    /\ (input.value.t \in {"undefined", "null"} \/ input.value = Text(<<>>)) =>
         output.value = CIPHERS
    /\ IsArray(input.value) =>
         output.value.t = "text" /\ IsColonJoined(output.value.v, input.value.v)
    /\ (TypeOf(input.value) = "string" /\ input.value # Text(<<>>)) =>
         output.value = input.value
    /\ output.stage = "again" =>
         output.again = IF output.value = Text(<<>>) THEN CIPHERS
                        ELSE output.value

\* C29 witness: ['AES128', 'HIGH'] has been normalized to 'AES128:HIGH'
\* and that to itself.
C29_Witness ==
  /\ output.stage = "again"
  /\ input.fn = "normalizeCiphers"
  /\ input.value = Arr(<<Lit("AES128"), Lit("HIGH")>>)
  /\ output.value =
       Text(<<Chunk("inline", "", "AES128"), Colon, Chunk("inline", "", "HIGH")>>)
  /\ output.again = output.value

(* ---------------------------------------------------------------------- *)
(* C30                                                                     *)
(* ---------------------------------------------------------------------- *)

====
